---- MODULE Spec2Model ----
(***************************************************************************)
(* A model of async_proxy.py: the chunk framer (ChunkParser), the HTTP     *)
(* message parser (HttpParser), the connection endpoints (Connection) and  *)
(* the relay loop of one proxy session (Proxy).                            *)
(*                                                                         *)
(* A byte string is a sequence of one-character strings; the carriage      *)
(* return and the line feed are the bytes "CR" and "LF".  A Python value   *)
(* that may be None is a sequence of length 0 (None) or 1 (the value).     *)
(* An exception raised inside a parser is recorded in the parser's err     *)
(* field, a loop that never ends in its hang field.                        *)
(***************************************************************************)
EXTENDS Integers, Sequences, FiniteSets, TLC

(***************************************************************************)
(* Python built-ins on byte strings                                        *)
(***************************************************************************)
None == <<>>

Some(x) == <<x>>

Min(a, b) == IF a < b THEN a ELSE b

Max(a, b) == IF a > b THEN a ELSE b

\* data[:n]
Take(s, n) == SubSeq(s, 1, Min(n, Len(s)))

\* data[n:]
Drop(s, n) == SubSeq(s, n + 1, Len(s))

IsPrefix(s, t) == Len(s) <= Len(t) /\ SubSeq(t, 1, Len(s)) = s

\* bytes.endswith
EndsWith(s, t) == Len(t) <= Len(s) /\ SubSeq(s, Len(s) - Len(t) + 1, Len(s)) = t

\* bytes.find of a two-byte needle: the 0-based position, or -1
Find(s, t) ==
    LET hits == {i \in 1..(Len(s) - 1) : s[i] = t[1] /\ s[i + 1] = t[2]}
    IN  IF hits = {} THEN -1
        ELSE (CHOOSE i \in hits : \A j \in hits : i <= j) - 1

\* the 1-based position of the first occurrence of the byte b, or 0
IndexOf(s, b) ==
    LET hits == {i \in 1..Len(s) : s[i] = b}
    IN  IF hits = {} THEN 0 ELSE CHOOSE i \in hits : \A j \in hits : i <= j

RECURSIVE SplitOn(_, _)
\* bytes.split(sep) for a one-byte separator
SplitOn(s, sep) ==
    LET i == IndexOf(s, sep)
    IN  IF i = 0 THEN <<s>>
        ELSE <<SubSeq(s, 1, i - 1)>> \o SplitOn(Drop(s, i), sep)

RECURSIVE Join(_, _)
\* sep.join(parts)
Join(parts, sep) ==
    IF parts = <<>> THEN <<>>
    ELSE IF Len(parts) = 1 THEN parts[1]
    ELSE parts[1] \o sep \o Join(Tail(parts), sep)

Whitespace == {" ", "CR", "LF", "TAB"}

RECURSIVE LStrip(_)
LStrip(s) == IF s # <<>> /\ s[1] \in Whitespace THEN LStrip(Tail(s)) ELSE s

RECURSIVE RStrip(_)
RStrip(s) ==
    IF s # <<>> /\ s[Len(s)] \in Whitespace THEN RStrip(SubSeq(s, 1, Len(s) - 1))
    ELSE s

\* bytes.strip
Strip(s) == RStrip(LStrip(s))

LowerLetters == <<"a","b","c","d","e","f","g","h","i","j","k","l","m",
                  "n","o","p","q","r","s","t","u","v","w","x","y","z">>

UpperLetters == <<"A","B","C","D","E","F","G","H","I","J","K","L","M",
                  "N","O","P","Q","R","S","T","U","V","W","X","Y","Z">>

LowerByte(b) ==
    IF \E i \in 1..26 : UpperLetters[i] = b
    THEN LowerLetters[CHOOSE i \in 1..26 : UpperLetters[i] = b]
    ELSE b

UpperByte(b) ==
    IF \E i \in 1..26 : LowerLetters[i] = b
    THEN UpperLetters[CHOOSE i \in 1..26 : LowerLetters[i] = b]
    ELSE b

\* bytes.lower
Lower(s) == [i \in 1..Len(s) |-> LowerByte(s[i])]

\* bytes.upper
Upper(s) == [i \in 1..Len(s) |-> UpperByte(s[i])]

HexDigits == <<"0","1","2","3","4","5","6","7","8","9","a","b","c","d","e","f">>

DigitVal(b) == (CHOOSE i \in 1..16 : HexDigits[i] = LowerByte(b)) - 1

IsDigit(b, base) ==
    \E i \in 1..base : HexDigits[i] = LowerByte(b)

RECURSIVE DigitsVal(_, _)
DigitsVal(s, base) ==
    IF s = <<>> THEN 0
    ELSE DigitsVal(SubSeq(s, 1, Len(s) - 1), base) * base + DigitVal(s[Len(s)])

\* int(s, base): ok is FALSE where Python raises ValueError.  The byte
\* strings of the model hold no sign and no underscore.
ParseInt(s, base) ==
    LET t == Strip(s)
    IN  IF t # <<>> /\ \A i \in 1..Len(t) : IsDigit(t[i], base)
        THEN [ok |-> TRUE, val |-> DigitsVal(t, base)]
        ELSE [ok |-> FALSE, val |-> 0]

(***************************************************************************)
(* Module constants                                                        *)
(***************************************************************************)
CRLF == <<"CR", "LF">>

COLON == ":"

SP == " "

HTTP_REQUEST_PARSER == 1

HTTP_RESPONSE_PARSER == 2

HTTP_PARSER_STATE_INITIALIZED == 1

HTTP_PARSER_STATE_LINE_RCVD == 2

HTTP_PARSER_STATE_RCVING_HEADERS == 3

HTTP_PARSER_STATE_HEADERS_COMPLETE == 4

HTTP_PARSER_STATE_RCVING_BODY == 5

HTTP_PARSER_STATE_COMPLETE == 6

CHUNK_PARSER_STATE_WAITING_FOR_SIZE == 1

CHUNK_PARSER_STATE_WAITING_FOR_DATA == 2

CHUNK_PARSER_STATE_COMPLETE == 3

POST == <<"P","O","S","T">>

CONNECT == <<"C","O","N","N","E","C","T">>

content_length == <<"c","o","n","t","e","n","t","-","l","e","n","g","t","h">>

transfer_encoding ==
    <<"t","r","a","n","s","f","e","r","-","e","n","c","o","d","i","n","g">>

chunked == <<"c","h","u","n","k","e","d">>

(***************************************************************************)
(* HttpParser.split                                                        *)
(***************************************************************************)
\* found = FALSE is the return value (False, data)
split(data) ==
    LET pos == Find(data, CRLF)
    IN  IF pos = -1
        THEN [found |-> FALSE, line |-> <<>>, data |-> data]
        ELSE [found |-> TRUE, line |-> Take(data, pos),
              data |-> Drop(data, pos + Len(CRLF))]

(***************************************************************************)
(* ChunkParser                                                             *)
(***************************************************************************)
ChunkParser_init ==
    [state |-> CHUNK_PARSER_STATE_WAITING_FOR_SIZE,
     body  |-> <<>>,
     chunk |-> <<>>,
     size  |-> None,
     err   |-> FALSE,
     hang  |-> FALSE]

\* one call of ChunkParser.process: the parser after it, and the pair
\* (more, data) it returns
ChunkParser_process(c, data) ==
    IF c.state = CHUNK_PARSER_STATE_WAITING_FOR_SIZE THEN
        LET Sized(s, n) ==
                IF s.line # <<>> /\ ~n.ok
                THEN [c |-> [c EXCEPT !.err = TRUE], more |-> FALSE, data |-> s.data]
                ELSE [c |-> [c EXCEPT
                               !.size = Some(IF s.line # <<>> THEN n.val ELSE 0),
                               !.state = CHUNK_PARSER_STATE_WAITING_FOR_DATA],
                      more |-> Len(s.data) > 0, data |-> s.data]
            Line(s) ==
                IF ~s.found
                \* line is False, False != b'' holds, int(False, 16) raises TypeError
                THEN [c |-> [c EXCEPT !.err = TRUE], more |-> FALSE, data |-> data]
                ELSE Sized(s, ParseInt(s.line, 16))
        IN  Line(split(data))
    ELSE IF c.state = CHUNK_PARSER_STATE_WAITING_FOR_DATA THEN
        LET remaining == c.size[1] - Len(c.chunk)
            chunk == c.chunk \o Take(data, remaining)
            data1 == Drop(data, remaining)
        IN  IF Len(chunk) = c.size[1]
            THEN LET data2 == Drop(data1, Len(CRLF))
                 IN  [c |-> [c EXCEPT
                               !.body = @ \o chunk,
                               !.state = IF c.size[1] = 0
                                         THEN CHUNK_PARSER_STATE_COMPLETE
                                         ELSE CHUNK_PARSER_STATE_WAITING_FOR_SIZE,
                               !.chunk = <<>>,
                               !.size = None],
                      more |-> Len(data2) > 0, data |-> data2]
            ELSE [c |-> [c EXCEPT !.chunk = chunk],
                  more |-> Len(data1) > 0, data |-> data1]
    ELSE [c |-> c, more |-> Len(data) > 0, data |-> data]

RECURSIVE ChunkParser_loop(_, _)
\* the while loop of ChunkParser.parse; an iteration that changes neither
\* the parser nor the data and asks for more repeats for ever
ChunkParser_loop(c, data) ==
    LET While(r) ==
            IF r.c.err THEN r.c
            ELSE IF ~r.more THEN r.c
            ELSE IF r.c = c /\ r.data = data THEN [c EXCEPT !.hang = TRUE]
            ELSE ChunkParser_loop(r.c, r.data)
    IN  While(ChunkParser_process(c, data))

ChunkParser_parse(c, data) ==
    IF Len(data) > 0 THEN ChunkParser_loop(c, data) ELSE c

(***************************************************************************)
(* urllib.parse.urlsplit and SplitResult.geturl, on the bytes of the       *)
(* request target                                                          *)
(***************************************************************************)
SchemeChars ==
    {LowerLetters[i] : i \in 1..26} \cup {UpperLetters[i] : i \in 1..26}
        \cup {HexDigits[i] : i \in 1..10} \cup {"+", "-", "."}

Letters == {LowerLetters[i] : i \in 1..26} \cup {UpperLetters[i] : i \in 1..26}

\* the schemes of urllib.parse.uses_netloc that the model's targets can spell
uses_netloc == {<<"h","t","t","p">>, <<"h","t","t","p","s">>}

\* the position in s of the first byte of the set bs, or Len(s) + 1
FirstOf(s, bs) ==
    LET hits == {i \in 1..Len(s) : s[i] \in bs}
    IN  IF hits = {} THEN Len(s) + 1
        ELSE CHOOSE i \in hits : \A j \in hits : i <= j

urlsplit(target) ==
    LET Query(scheme, netloc, url3, fragment) ==
            LET q == IndexOf(url3, "?")
            IN  [scheme |-> scheme, netloc |-> netloc,
                 path |-> IF q > 0 THEN SubSeq(url3, 1, q - 1) ELSE url3,
                 query |-> IF q > 0 THEN Drop(url3, q) ELSE <<>>,
                 fragment |-> fragment]
        Fragment(scheme, netloc, url2) ==
            LET h == IndexOf(url2, "#")
            IN  Query(scheme, netloc,
                      IF h > 0 THEN SubSeq(url2, 1, h - 1) ELSE url2,
                      IF h > 0 THEN Drop(url2, h) ELSE <<>>)
        Netloc(scheme, url1) ==
            LET hasNetloc == Take(url1, 2) = <<"/", "/">>
                delim == FirstOf(Drop(url1, 2), {"/", "?", "#"})
            IN  Fragment(scheme,
                         IF hasNetloc THEN SubSeq(Drop(url1, 2), 1, delim - 1)
                         ELSE <<>>,
                         IF hasNetloc THEN Drop(Drop(url1, 2), delim - 1) ELSE url1)
        Scheme(url0) ==
            LET i == IndexOf(url0, ":")
                hasScheme == /\ i > 1
                             /\ url0[1] \in Letters
                             /\ \A j \in 1..(i - 1) : url0[j] \in SchemeChars
            IN  Netloc(IF hasScheme THEN Lower(SubSeq(url0, 1, i - 1)) ELSE <<>>,
                       IF hasScheme THEN Drop(url0, i) ELSE url0)
    IN  Scheme(SelectSeq(LStrip(target), LAMBDA b : b \notin {"TAB", "CR", "LF"}))

geturl(u) ==
    LET withNetloc == \/ u.netloc # <<>>
                      \/ /\ u.scheme # <<>>
                         /\ u.scheme \in uses_netloc
                         /\ Take(u.path, 2) # <<"/", "/">>
        url1 == IF withNetloc
                THEN <<"/", "/">> \o u.netloc
                       \o (IF u.path # <<>> /\ u.path[1] # "/" THEN <<"/">> ELSE <<>>)
                       \o u.path
                ELSE u.path
        url2 == IF u.scheme # <<>> THEN u.scheme \o <<":">> \o url1 ELSE url1
        url3 == IF u.query # <<>> THEN url2 \o <<"?">> \o u.query ELSE url2
    IN  IF u.fragment # <<>> THEN url3 \o <<"#">> \o u.fragment ELSE url3

(***************************************************************************)
(* HttpParser                                                              *)
(***************************************************************************)
\* headers is the dict in insertion order: a sequence of entries
\* [k |-> lowercased name, name |-> original name, value |-> value]
HttpParser_init(type) ==
    [state   |-> HTTP_PARSER_STATE_INITIALIZED,
     type    |-> type,
     raw     |-> <<>>,
     buffer  |-> <<>>,
     headers |-> <<>>,
     body    |-> None,
     method  |-> None,
     url     |-> None,
     code    |-> None,
     reason  |-> None,
     version |-> None,
     chunker |-> None,
     err     |-> FALSE,
     hang    |-> FALSE]

\* k in self.headers
HasHeader(headers, k) == \E i \in 1..Len(headers) : headers[i].k = k

\* self.headers[k][1]
HeaderValue(headers, k) ==
    headers[CHOOSE i \in 1..Len(headers) : headers[i].k = k].value

\* self.headers[k] = (name, value): a dict keeps the position of a key
\* that is already present
SetHeader(headers, k, name, value) ==
    LET e == [k |-> k, name |-> name, value |-> value]
    IN  IF HasHeader(headers, k)
        THEN [i \in 1..Len(headers) |->
                 IF headers[i].k = k THEN e ELSE headers[i]]
        ELSE Append(headers, e)

process_line(p, data) ==
    LET Tokens(line) ==
            IF p.type = HTTP_REQUEST_PARSER THEN
                IF Len(line) < 2
                THEN [p EXCEPT !.method = Some(Upper(line[1])), !.err = TRUE]
                ELSE IF Len(line) < 3
                THEN [p EXCEPT !.method = Some(Upper(line[1])),
                               !.url = Some(urlsplit(line[2])),
                               !.err = TRUE]
                ELSE [p EXCEPT !.method = Some(Upper(line[1])),
                               !.url = Some(urlsplit(line[2])),
                               !.version = Some(line[3]),
                               !.state = HTTP_PARSER_STATE_LINE_RCVD]
            ELSE
                IF Len(line) < 2
                THEN [p EXCEPT !.version = Some(line[1]), !.err = TRUE]
                ELSE [p EXCEPT !.version = Some(line[1]),
                               !.code = Some(line[2]),
                               !.reason = Some(Join(SubSeq(line, 3, Len(line)), <<SP>>)),
                               !.state = HTTP_PARSER_STATE_LINE_RCVD]
    IN  Tokens(SplitOn(data, SP))

process_header(p, data) ==
    IF Len(data) = 0 THEN
        IF p.state = HTTP_PARSER_STATE_RCVING_HEADERS
        THEN [p EXCEPT !.state = HTTP_PARSER_STATE_HEADERS_COMPLETE]
        ELSE IF p.state = HTTP_PARSER_STATE_LINE_RCVD
        THEN [p EXCEPT !.state = HTTP_PARSER_STATE_RCVING_HEADERS]
        ELSE p
    ELSE
        LET parts == SplitOn(data, COLON)
            key == Strip(parts[1])
            value == Strip(Join(Tail(parts), <<COLON>>))
        IN  [p EXCEPT !.state = HTTP_PARSER_STATE_RCVING_HEADERS,
                      !.headers = SetHeader(@, Lower(key), key, value)]

\* process_body with a slip: the body is complete when its length equals
\* the declared length, not when it reaches it
process_body_exact(p, data) ==
    LET p0 == IF p.body = None \/ p.body = Some(<<>>)
              THEN [p EXCEPT !.body = Some(<<>>)] ELSE p
    IN  IF HasHeader(p0.headers, content_length) THEN
            LET p1 == [p0 EXCEPT !.state = HTTP_PARSER_STATE_RCVING_BODY,
                                 !.body = Some(@[1] \o data)]
                n == ParseInt(HeaderValue(p0.headers, content_length), 10)
            IN  IF ~n.ok THEN [p1 EXCEPT !.err = TRUE]
                ELSE IF Len(p1.body[1]) = n.val
                THEN [p1 EXCEPT !.state = HTTP_PARSER_STATE_COMPLETE]
                ELSE p1
        ELSE IF /\ HasHeader(p0.headers, transfer_encoding)
                /\ Lower(HeaderValue(p0.headers, transfer_encoding)) = chunked THEN
            LET c0 == IF p0.chunker = None THEN ChunkParser_init ELSE p0.chunker[1]
                Framed(c1) ==
                    LET p1 == [p0 EXCEPT !.chunker = Some(c1)]
                    IN  IF c1.err THEN [p1 EXCEPT !.err = TRUE]
                        ELSE IF c1.hang THEN [p1 EXCEPT !.hang = TRUE]
                        ELSE IF c1.state = CHUNK_PARSER_STATE_COMPLETE
                        THEN [p1 EXCEPT !.body = Some(c1.body),
                                        !.state = HTTP_PARSER_STATE_COMPLETE]
                        ELSE p1
            IN  Framed(ChunkParser_parse(c0, data))
        ELSE p0

\* the body branch of HttpParser.process (lines 134-152)
process_body(p, data) ==
    LET p0 == IF p.body = None \/ p.body = Some(<<>>)
              THEN [p EXCEPT !.body = Some(<<>>)] ELSE p
    IN  IF HasHeader(p0.headers, content_length) THEN
            LET p1 == [p0 EXCEPT !.state = HTTP_PARSER_STATE_RCVING_BODY,
                                 !.body = Some(@[1] \o data)]
                n == ParseInt(HeaderValue(p0.headers, content_length), 10)
            IN  IF ~n.ok THEN [p1 EXCEPT !.err = TRUE]
                ELSE IF Len(p1.body[1]) >= n.val
                THEN [p1 EXCEPT !.state = HTTP_PARSER_STATE_COMPLETE]
                ELSE p1
        ELSE IF /\ HasHeader(p0.headers, transfer_encoding)
                /\ Lower(HeaderValue(p0.headers, transfer_encoding)) = chunked THEN
            LET c0 == IF p0.chunker = None THEN ChunkParser_init ELSE p0.chunker[1]
                Framed(c1) ==
                    LET p1 == [p0 EXCEPT !.chunker = Some(c1)]
                    IN  IF c1.err THEN [p1 EXCEPT !.err = TRUE]
                        ELSE IF c1.hang THEN [p1 EXCEPT !.hang = TRUE]
                        ELSE IF c1.state = CHUNK_PARSER_STATE_COMPLETE
                        THEN [p1 EXCEPT !.body = Some(c1.body),
                                        !.state = HTTP_PARSER_STATE_COMPLETE]
                        ELSE p1
            IN  Framed(ChunkParser_parse(c0, data))
        ELSE p0

\* one call of HttpParser.process: the parser after it, and the pair
\* (more, data) it returns
HttpParser_process(p, data) ==
    IF /\ p.state >= HTTP_PARSER_STATE_HEADERS_COMPLETE
       /\ (p.method = Some(POST) \/ p.type = HTTP_RESPONSE_PARSER)
    THEN [p |-> process_body(p, data), more |-> FALSE, data |-> <<>>]
    ELSE
        LET Promote(p1) ==
                IF /\ ~p1.err
                   /\ p1.state = HTTP_PARSER_STATE_HEADERS_COMPLETE
                   /\ p1.type = HTTP_REQUEST_PARSER
                   /\ p1.method # Some(POST)
                   /\ EndsWith(p1.raw, CRLF \o CRLF)
                THEN [p1 EXCEPT !.state = HTTP_PARSER_STATE_COMPLETE]
                ELSE p1
            Line(s) ==
                IF ~s.found THEN [p |-> p, more |-> FALSE, data |-> s.data]
                ELSE [p |-> Promote(IF p.state < HTTP_PARSER_STATE_LINE_RCVD
                                    THEN process_line(p, s.line)
                                    ELSE IF p.state < HTTP_PARSER_STATE_HEADERS_COMPLETE
                                    THEN process_header(p, s.line)
                                    ELSE p),
                      more |-> Len(s.data) > 0, data |-> s.data]
        IN  Line(split(data))

RECURSIVE HttpParser_loop(_, _)
\* the while loop of HttpParser.parse and the assignment that follows it;
\* an exception leaves the loop before self.buffer is assigned
HttpParser_loop(p, data) ==
    LET While(r) ==
            IF r.p.err \/ r.p.hang THEN r.p
            ELSE IF ~r.more THEN [r.p EXCEPT !.buffer = r.data]
            ELSE HttpParser_loop(r.p, r.data)
    IN  While(HttpParser_process(p, data))

HttpParser_parse(p, data) ==
    LET p1 == [p EXCEPT !.raw = @ \o data, !.buffer = <<>>]
        d == p.buffer \o data
    IN  IF Len(d) > 0 THEN HttpParser_loop(p1, d)
        ELSE [p1 EXCEPT !.buffer = d]

build_url(p) ==
    IF p.url = None THEN <<"/","N","o","n","e">> ELSE geturl(p.url[1])

build_header(k, v) == k \o <<":", " ">> \o v \o CRLF

RECURSIVE build_headers_by_name(_, _)
\* build_headers with a slip: the name as the client wrote it is looked up
\* in del_headers, not the lowercased key
build_headers_by_name(headers, del_headers) ==
    IF headers = <<>> THEN <<>>
    ELSE (IF headers[1].name \notin del_headers
          THEN build_header(headers[1].name, headers[1].value) ELSE <<>>)
         \o build_headers_by_name(Tail(headers), del_headers)

RECURSIVE build_headers(_, _)
\* the loop over self.headers of HttpParser.build
build_headers(headers, del_headers) ==
    IF headers = <<>> THEN <<>>
    ELSE (IF headers[1].k \notin del_headers
          THEN build_header(headers[1].name, headers[1].value) ELSE <<>>)
         \o build_headers(Tail(headers), del_headers)

RECURSIVE build_added(_)
\* the loop over add_headers of HttpParser.build
build_added(add_headers) ==
    IF add_headers = <<>> THEN <<>>
    ELSE build_header(add_headers[1][1], add_headers[1][2])
         \o build_added(Tail(add_headers))

\* HttpParser.build, for a parser whose start line has been parsed
build(p, del_headers, add_headers) ==
    Join(<<p.method[1], build_url(p), p.version[1]>>, <<SP>>) \o CRLF
        \o build_headers(p.headers, del_headers)
        \o build_added(add_headers)
        \o CRLF
        \o (IF p.body # None /\ p.body[1] # <<>> THEN p.body[1] ELSE <<>>)

(***************************************************************************)
(* Bounds and inputs                                                       *)
(***************************************************************************)
\* the seconds the clock may reach
MaxNow == 31

\* the seconds that pass between two looks at the clock when select
\* reports no socket: one-second waits taken together
TickStep == 31

\* the seconds of a shorter run of one-second waits
WaitStep == 15

\* a send that does not accept the whole buffer accepts this many bytes
SendUnit == 6

\* a recv on the server socket that does not return everything the server
\* has sent returns this many bytes
RecvUnit == 12

B(str) == <<str>>

GET == <<"G","E","T">>

\* GET http://h/ 1 CRLF K:v CRLF CRLF
ReqGet ==
    GET \o <<" ","h","t","t","p",":","/","/","h","/"," ","1">> \o CRLF
        \o <<"K",":","v">> \o CRLF \o CRLF

\* POST http://h/ 1 CRLF Content-Length:1 CRLF CRLF a b
ReqPost ==
    POST \o <<" ","h","t","t","p",":","/","/","h","/"," ","1">> \o CRLF
        \o <<"C","o","n","t","e","n","t","-","L","e","n","g","t","h",":","1">>
        \o CRLF \o CRLF \o <<"a","b">>

\* CONNECT h:1 1 CRLF K:v CRLF CRLF x
ReqConnect ==
    CONNECT \o <<" ","h",":","1"," ","1">> \o CRLF
        \o <<"K",":","v">> \o CRLF \o CRLF \o <<"x">>

\* GET / CRLF : a start line of two tokens only
ReqBad == GET \o <<" ","/">> \o CRLF

\* what the client of a session sends
ClientStreams == {ReqGet, ReqPost, ReqConnect, ReqBad}

\* 1 200 OK CRLF Content-Length:1 CRLF CRLF a
RespLength ==
    <<"1"," ","2","0","0"," ","O","K">> \o CRLF
        \o <<"C","o","n","t","e","n","t","-","L","e","n","g","t","h",":","1">>
        \o CRLF \o CRLF \o <<"a">>

\* 1 200 OK CRLF K:v CRLF CRLF a : neither length nor chunked
RespOpen ==
    <<"1"," ","2","0","0"," ","O","K">> \o CRLF
        \o <<"K",":","v">> \o CRLF \o CRLF \o <<"a">>

\* 1 CRLF : a status line of one token only
RespBad == <<"1">> \o CRLF

\* what the server of a session sends on each connection made to it
ServerStreams == {RespLength, RespOpen, RespBad, <<>>}

\* the outcomes of choosing the target and dialling it: connected, the
\* connect raised, or the target could not be worked out (an exception
\* other than ProxyConnectionFailed, raised before the Server is made)
DialOutcomes == {"ok", "refused", "error"}

(***************************************************************************)
(* Connection                                                              *)
(***************************************************************************)
Connection_init == [buffer |-> <<>>, closed |-> FALSE]

buffer_size(c) == Len(c.buffer)

has_buffer(c) == buffer_size(c) > 0

queue(c, data) == [c EXCEPT !.buffer = @ \o data]

\* a flush that empties the buffer whatever the send accepted
flush_all(c, sent) == [c EXCEPT !.buffer = <<>>]

\* Connection.flush when the one send accepts the first sent bytes
flush(c, sent) == [c EXCEPT !.buffer = Drop(@, sent)]

close(c) == [c EXCEPT !.closed = TRUE]

(***************************************************************************)
(* Proxy                                                                   *)
(***************************************************************************)
\* the text of a line the proxy emits itself is one symbol of the byte
\* string; no parser of the model reads these lines
connection_established_pkt ==
    Join(<<B("HTTP/1.1 200 Connection established"),
           B("Proxy-agent: proxy.py v0.2"),
           CRLF>>, CRLF)

bad_gateway_pkt ==
    Join(<<B("HTTP/1.1 502 Bad Gateway"),
           B("Proxy-agent: proxy.py v0.2"),
           B("Content-Length: 11"),
           B("Connection: close"),
           CRLF>>, CRLF) \o B("Bad Gateway")

del_headers ==
    {<<"p","r","o","x","y","-","c","o","n","n","e","c","t","i","o","n">>,
     <<"c","o","n","n","e","c","t","i","o","n">>,
     <<"k","e","e","p","-","a","l","i","v","e">>}

add_headers ==
    << << <<"C","o","n","n","e","c","t","i","o","n">>, <<"C","l","o","s","e">> >> >>

IdleBudget == 30

VARIABLES
    client,         \* Proxy.client: the client endpoint
    server,         \* Proxy.server: None or the server endpoint
    request,        \* Proxy.request
    response,       \* Proxy.response
    last_activity,  \* Proxy.last_activity
    pc,             \* where Proxy.run is: "run", "closing", "done", "hung"
    net,            \* the sockets and the clock
    obs,            \* what has been observed of the session so far
    feed            \* a parser fed piece by piece, on its own

vars == <<client, server, request, response, last_activity, pc, net, obs, feed>>

\* a socket that select does not report
NotReady == -2

\* a send that raises
SendRaises == -1

\* a recv that returns None
RecvNone == 0

\* everything there is, or one unit of it
Blocks(n, unit) == {k \in 1..n : k = unit \/ k = n}

\* the session as one record: the Proxy object, the sockets and clock, the
\* observations, the exception in flight, the value _process_rlist returns
\* and the socket calls issued so far in the iteration
Session ==
    [client |-> client, server |-> server, request |-> request,
     response |-> response, last_activity |-> last_activity,
     net |-> net, obs |-> obs, raised |-> "none", ret |-> "none",
     calls |-> [csend |-> 0, crecv |-> 0, ssend |-> 0, srecv |-> 0]]

\* a queue call on the server endpoint, as observed
NoteServerQueue(o, kind, data, st) ==
    [o EXCEPT !.first_q = IF @ = None
                          THEN Some([kind |-> kind, state |-> st, data |-> data])
                          ELSE @,
              !.squeued = @ \o data]

\* Proxy_connect with a slip: for a request other than CONNECT the bytes
\* received from the client are queued to the new server endpoint as they
\* came, and the rebuilt request after them
Proxy_connect_raw_first(P, d) ==
    IF d = "error" THEN [P EXCEPT !.raised = "Exception"]
    ELSE IF d = "refused"
    THEN [P EXCEPT !.server = Some([Connection_init EXCEPT !.closed = TRUE]),
                   !.net.sin = <<>>, !.net.swire = <<>>,
                   !.obs.dials = @ + 1, !.obs.first_q = None,
                   !.raised = "ProxyConnectionFailed"]
    ELSE
        LET P1 == [P EXCEPT !.server = Some(Connection_init),
                            !.net.sin = P.net.script, !.net.swire = <<>>,
                            !.obs.dials = @ + 1, !.obs.first_q = None]
            pkt == build(P.request, del_headers, add_headers)
            P2 == [P1 EXCEPT !.server = Some(queue(@[1], P.request.raw)),
                             !.obs = NoteServerQueue(@, "raw", P.request.raw,
                                                     P.request.state)]
        IN  IF P.request.method = Some(CONNECT)
            THEN [P1 EXCEPT !.client = queue(@, connection_established_pkt),
                            !.obs.cqueued = @ \o connection_established_pkt,
                            !.obs.n200 = @ + 1,
                            !.obs.after200 = IF @ = None THEN Some(<<>>) ELSE @]
            ELSE [P2 EXCEPT !.server = Some(queue(@[1], pkt)),
                            !.obs = [NoteServerQueue(@, "rebuilt", pkt, P.request.state)
                                        EXCEPT !.nrebuilt = @ + 1]]

\* lines 365-396 of Proxy._process_request: make the Server, connect, and
\* queue the reply or the rebuilt request; d is how the dial ends
Proxy_connect(P, d) ==
    IF d = "error" THEN [P EXCEPT !.raised = "Exception"]
    ELSE IF d = "refused"
    THEN [P EXCEPT !.server = Some([Connection_init EXCEPT !.closed = TRUE]),
                   !.net.sin = <<>>, !.net.swire = <<>>,
                   !.obs.dials = @ + 1, !.obs.first_q = None,
                   !.raised = "ProxyConnectionFailed"]
    ELSE
        LET P1 == [P EXCEPT !.server = Some(Connection_init),
                            !.net.sin = P.net.script, !.net.swire = <<>>,
                            !.obs.dials = @ + 1, !.obs.first_q = None]
            pkt == build(P.request, del_headers, add_headers)
        IN  IF P.request.method = Some(CONNECT)
            THEN [P1 EXCEPT !.client = queue(@, connection_established_pkt),
                            !.obs.cqueued = @ \o connection_established_pkt,
                            !.obs.n200 = @ + 1,
                            !.obs.after200 = IF @ = None THEN Some(<<>>) ELSE @]
            ELSE [P1 EXCEPT !.server = Some(queue(@[1], pkt)),
                            !.obs = [NoteServerQueue(@, "rebuilt", pkt, P.request.state)
                                        EXCEPT !.nrebuilt = @ + 1]]

\* Proxy._process_request: the sessions it can leave behind
Proxy_process_request(P, data) ==
    IF P.server # None /\ ~P.server[1].closed
    THEN {[P EXCEPT !.server = Some(queue(@[1], data)),
                    !.obs = NoteServerQueue(@, "raw", data, P.request.state)]}
    ELSE
        LET Parsed(req) ==
                LET P1 == [P EXCEPT !.request = req,
                                    !.obs.reparsed = @ \/ P.obs.after200 # None]
                IN  IF req.err THEN {[P1 EXCEPT !.raised = "Exception"]}
                    ELSE IF req.hang THEN {[P1 EXCEPT !.raised = "hang"]}
                    ELSE IF req.state = HTTP_PARSER_STATE_COMPLETE
                    THEN {Proxy_connect(P1, d) : d \in DialOutcomes}
                    ELSE {P1}
        IN  Parsed(HttpParser_parse(P.request, data))

\* Proxy._process_response
Proxy_process_response(P, data) ==
    LET Parsed(resp) ==
            LET P1 == [P EXCEPT !.response = resp]
            IN  IF resp.err
                THEN [P1 EXCEPT !.raised = "Exception", !.obs.unqueued = TRUE]
                ELSE IF resp.hang
                THEN [P1 EXCEPT !.raised = "hang", !.obs.unqueued = TRUE]
                ELSE [P1 EXCEPT !.client = queue(@, data),
                                !.obs.cqueued = @ \o data,
                                !.obs.relayed = @ \o data]
    IN  Parsed(IF P.request.method # Some(CONNECT)
               THEN HttpParser_parse(P.response, data)
               ELSE P.response)

\* what the send of a flush of the endpoint c may do
SendChoices(c) == {SendRaises} \cup Blocks(Len(c.buffer), SendUnit)

\* Proxy._process_wlist; kc and ks say what the send on each socket does
Proxy_process_wlist(P, kc, ks) ==
    LET P1 == IF kc = NotReady THEN P
              ELSE IF kc = SendRaises
              THEN [P EXCEPT !.raised = "Exception", !.calls.csend = @ + 1]
              ELSE [P EXCEPT !.net.cwire = @ \o Take(P.client.buffer, kc),
                             !.client = flush(@, kc),
                             !.calls.csend = @ + 1]
    IN  IF \/ P1.raised # "none" \/ ks = NotReady
           \/ P1.server = None \/ P1.server[1].closed
        THEN P1
        ELSE IF ks = SendRaises
        THEN [P1 EXCEPT !.raised = "Exception", !.calls.ssend = @ + 1]
        ELSE [P1 EXCEPT !.net.swire = @ \o Take(P1.server[1].buffer, ks),
                        !.server = Some(flush(@[1], ks)),
                        !.calls.ssend = @ + 1]

\* lines 453-463: the 502 reply is queued and flushed once
Proxy_bad_gateway(P) ==
    LET c == queue(P.client, bad_gateway_pkt)
    IN  {IF k = SendRaises
         THEN [P EXCEPT !.client = c, !.raised = "Exception",
                        !.calls.csend = @ + 1,
                        !.obs.cqueued = @ \o bad_gateway_pkt]
         ELSE [P EXCEPT !.client = flush(c, k),
                        !.calls.csend = @ + 1,
                        !.obs.cqueued = @ \o bad_gateway_pkt,
                        !.net.cwire = @ \o Take(c.buffer, k),
                        !.raised = "none", !.ret = "dial_failed"]
         : k \in {0} \cup SendChoices(c)}

\* lines 442-463 of Proxy._process_rlist: the client socket; rc is what
\* the recv returns
Proxy_rlist_client(P, rc) ==
    IF rc = NotReady THEN {P}
    ELSE IF rc = RecvNone
    THEN {[P EXCEPT !.last_activity = P.net.now, !.obs.last_read = Some(P.net.now),
                    !.calls.crecv = @ + 1,
                    !.ret = "client_closed"]}
    ELSE
        LET data == Take(P.net.cin, rc)
            P1 == [P EXCEPT !.last_activity = P.net.now,
                            !.calls.crecv = @ + 1,
                            !.obs.last_read = Some(P.net.now),
                            !.net.cin = Drop(@, rc),
                            !.obs.after200 = IF @ = None THEN @
                                             ELSE Some(@[1] \o data)]
        IN  UNION {IF Q.raised = "ProxyConnectionFailed"
                   THEN Proxy_bad_gateway(Q) ELSE {Q}
                   : Q \in Proxy_process_request(P1, data)}

\* lines 465-474 of Proxy._process_rlist: the server socket
Proxy_rlist_server(P, rs) ==
    IF \/ P.ret # "none" \/ P.raised # "none" \/ rs = NotReady
       \/ P.server = None \/ P.server[1].closed
    THEN P
    ELSE IF rs = RecvNone
    THEN [P EXCEPT !.last_activity = P.net.now, !.obs.last_read = Some(P.net.now),
                   !.calls.srecv = @ + 1,
                   !.obs.close_pending = @ \/ has_buffer(P.client),
                   !.server = Some(close(@[1]))]
    ELSE Proxy_process_response(
             [P EXCEPT !.last_activity = P.net.now,
                       !.calls.srecv = @ + 1,
                       !.obs.last_read = Some(P.net.now),
                       !.obs.sread = @ \o Take(P.net.sin, rs),
                       !.net.sin = Drop(@, rs)],
             Take(P.net.sin, rs))

Proxy_process_rlist(P, rc, rs) ==
    {Proxy_rlist_server(Q, rs) : Q \in Proxy_rlist_client(P, rc)}

inactive_for(P) == P.net.now - P.last_activity

\* is_inactive with a slip: a budget of 3 seconds
is_inactive_3(P) == inactive_for(P) > 3

\* is_inactive with a slip: the budget never runs out
is_inactive_never(P) == inactive_for(P) > inactive_for(P)

is_inactive(P) == inactive_for(P) > IdleBudget

\* Proxy_exit with a slip: the two checks are made whatever the client
\* buffer holds
Proxy_exit_any_buffer(P) ==
    IF P.raised = "Exception" THEN "exception"
    ELSE IF P.ret # "none" THEN P.ret
    ELSE IF P.response.state = HTTP_PARSER_STATE_COMPLETE THEN "complete"
    ELSE IF is_inactive(P) THEN "idle"
    ELSE "none"

\* lines 487-494 of Proxy._process: why the loop is left, or "none"
Proxy_exit(P) ==
    IF P.raised = "Exception" THEN "exception"
    ELSE IF P.ret # "none" THEN P.ret
    ELSE IF buffer_size(P.client) = 0 /\ P.response.state = HTTP_PARSER_STATE_COMPLETE
    THEN "complete"
    ELSE IF buffer_size(P.client) = 0 /\ is_inactive(P) THEN "idle"
    ELSE "none"

\* Proxy._get_waitable_lists and select: what each socket may be reported
\* with.  The server socket is watched only if the server endpoint exists
\* and is open when the lists are made.
ClientWrites(P) ==
    {NotReady} \cup (IF has_buffer(P.client) THEN SendChoices(P.client) ELSE {})

ServerOpen(P) == P.server # None /\ ~P.server[1].closed

ServerWrites(P) ==
    {NotReady} \cup (IF ServerOpen(P) /\ has_buffer(P.server[1])
                     THEN SendChoices(P.server[1]) ELSE {})

\* the client's bytes arrive split in every way
ClientReads(P) ==
    {NotReady} \cup (IF P.net.quiet THEN {}
                     ELSE {RecvNone} \cup 1..Len(P.net.cin))

ServerReads(P) ==
    {NotReady} \cup (IF ServerOpen(P) /\ ~P.net.quiet
                     THEN {RecvNone} \cup Blocks(Len(P.net.sin), RecvUnit) ELSE {})

\* one iteration of the loop of Proxy._process in which select reports
\* the sockets as kc, ks, rc, rs say
Proxy_process_iteration(P, kc, ks, rc, rs) ==
    LET Written(Pw) ==
            IF Pw.raised # "none" THEN {Pw} ELSE Proxy_process_rlist(Pw, rc, rs)
    IN  Written(Proxy_process_wlist(P, kc, ks))

Install(Q) ==
    /\ client' = Q.client
    /\ server' = Q.server
    /\ request' = Q.request
    /\ response' = Q.response
    /\ last_activity' = Q.last_activity
    /\ net' = Q.net
    /\ obs' = [Q.obs EXCEPT !.exit = Proxy_exit(Q),
                            !.maxsend = Max(@, Max(Q.calls.csend, Q.calls.ssend)),
                            !.maxrecv = Max(@, Max(Q.calls.crecv, Q.calls.srecv))]
    /\ pc' = IF Q.raised = "hang" THEN "hung"
             ELSE IF Proxy_exit(Q) # "none" THEN "closing"
             ELSE "run"
    /\ UNCHANGED feed

\* an iteration of the relay loop in which some socket is ready
Process ==
    /\ pc = "run"
    /\ \E kc \in ClientWrites(Session), ks \in ServerWrites(Session),
          rc \in ClientReads(Session), rs \in ServerReads(Session) :
          /\ <<kc, ks, rc, rs>> # <<NotReady, NotReady, NotReady, NotReady>>
          /\ \E Q \in Proxy_process_iteration(Session, kc, ks, rc, rs) :
                Install(Q)

\* an iteration of the relay loop in which select times out
ProcessIdle ==
    /\ pc = "run"
    /\ net.now + TickStep <= MaxNow
    /\ Install([Session EXCEPT !.net.now = @ + TickStep])

\* iterations of the relay loop in which select times out, for a shorter time
ProcessWait ==
    /\ pc = "run"
    /\ net.now + WaitStep <= MaxNow
    /\ Install([Session EXCEPT !.net.now = @ + WaitStep])

\* the finally block of Proxy.run
Teardown ==
    /\ pc = "closing"
    /\ client' = close(client)
    /\ pc' = "done"
    /\ UNCHANGED <<server, request, response, last_activity, net, obs, feed>>

\* no parser is being fed on its own
FeedIdle ==
    [kind |-> "none",
     stream |-> [kind |-> "none", bytes |-> <<>>, start |-> 0,
                 framing |-> "none", body |-> <<>>],
     pos |-> 0,
     http |-> HttpParser_init(HTTP_REQUEST_PARSER),
     chunk |-> ChunkParser_init,
     built |-> None,
     done_at |-> None]

Init ==
    /\ client = Connection_init
    /\ server = None
    /\ request = HttpParser_init(HTTP_REQUEST_PARSER)
    /\ response = HttpParser_init(HTTP_RESPONSE_PARSER)
    /\ last_activity = 0
    /\ pc = "run"
    /\ \E cs \in ClientStreams, ss \in ServerStreams :
          net = [cin |-> cs, script |-> ss, sin |-> <<>>,
                 cwire |-> <<>>, swire |-> <<>>, now |-> 0,
                 quiet |-> FALSE]
    /\ obs = [dials |-> 0, n200 |-> 0, nrebuilt |-> 0, first_q |-> None,
              squeued |-> <<>>, after200 |-> None, reparsed |-> FALSE,
              unqueued |-> FALSE, exit |-> "none", last_read |-> None,
              sread |-> <<>>, relayed |-> <<>>, cqueued |-> <<>>, maxsend |-> 0, maxrecv |-> 0,
              close_pending |-> FALSE]
    /\ feed = FeedIdle

Next == Process \/ ProcessIdle \/ ProcessWait \/ Teardown

Spec == Init /\ [][Next]_vars

(***************************************************************************)
(* The session when the sockets fall silent: from some point on select     *)
(* reports no socket readable, time goes on and the client socket accepts  *)
(* what is written to it                                                   *)
(***************************************************************************)
\* the sessions followed into silence: a plain request and a tunnel, a
\* response with a length and one left open
InitLive ==
    /\ Init
    /\ net.cin \in {ReqGet, ReqConnect}
    /\ net.script \in {RespLength, RespOpen}

\* from here on no socket is reported readable
Quiesce ==
    /\ pc = "run"
    /\ ~net.quiet
    /\ net' = [net EXCEPT !.quiet = TRUE]
    /\ UNCHANGED <<client, server, request, response, last_activity, pc,
                   obs, feed>>

\* iterations of the loop in which select times out while the sockets are
\* silent; past the idle budget the clock makes no more difference and is
\* left where it is
QuietTick ==
    /\ pc = "run"
    /\ net.quiet
    /\ inactive_for(Session) <= IdleBudget
    /\ Install([Session EXCEPT !.net.now = @ + TickStep])

\* an iteration in which the client socket is writable and accepts bytes
\* while the sockets are silent
Drain ==
    /\ pc = "run"
    /\ net.quiet
    /\ has_buffer(client)
    /\ \E kc \in Blocks(Len(client.buffer), SendUnit),
          ks \in ServerWrites(Session) :
          \E Q \in Proxy_process_iteration(Session, kc, ks, NotReady, NotReady) :
             Install(Q)

NextLive == Process \/ ProcessWait \/ Quiesce \/ QuietTick \/ Teardown

SpecLive ==
    /\ InitLive /\ [][NextLive]_vars
    /\ WF_vars(QuietTick) /\ WF_vars(Drain) /\ WF_vars(Teardown)

(***************************************************************************)
(* The parsers on their own: one parser is fed a byte stream piece by      *)
(* piece, the stream being split in every way                              *)
(***************************************************************************)
\* CONNECT h:1 1 CRLF CRLF : a start line and the blank line, no headers
ReqConnectBare == CONNECT \o <<" ","h",":","1"," ","1">> \o CRLF \o CRLF

\* the chunked encoding of a list of payloads, closed by the zero-size chunk
RECURSIVE Chunked(_)
Chunked(payloads) ==
    IF payloads = <<>> THEN <<"0">> \o CRLF \o CRLF
    ELSE <<HexDigits[Len(payloads[1]) + 1]>> \o CRLF \o payloads[1] \o CRLF
         \o Chunked(Tail(payloads))

RECURSIVE Concat(_)
Concat(payloads) ==
    IF payloads = <<>> THEN <<>> ELSE payloads[1] \o Concat(Tail(payloads))

PayloadLists == {<< <<"a","b">> >>, << <<"a">>, <<"b">> >>, <<>>}

TransferEncodingChunked ==
    <<"T","r","a","n","s","f","e","r","-","E","n","c","o","d","i","n","g",":",
      "c","h","u","n","k","e","d">>

\* POST / 1 CRLF Transfer-Encoding:chunked CRLF CRLF
ReqPostChunkedHead ==
    POST \o <<" ","/"," ","1">> \o CRLF \o TransferEncodingChunked \o CRLF \o CRLF

\* 1 200 OK CRLF Transfer-Encoding:chunked CRLF CRLF
RespChunkedHead ==
    <<"1"," ","2","0","0"," ","O","K">> \o CRLF \o TransferEncodingChunked
        \o CRLF \o CRLF

\* 1 200 OK CRLF Content-Length:n CRLF CRLF
RespLengthHead(n) ==
    <<"1"," ","2","0","0"," ","O","K">> \o CRLF
        \o <<"C","o","n","t","e","n","t","-","L","e","n","g","t","h",":">>
        \o <<HexDigits[n + 1]>> \o CRLF \o CRLF

\* the longest body of a response that declares its length
MaxBody == 2

BodyBytes == <<"a","b","c","d","e","f","g","h","i">>

\* a stream to feed: its bytes, how it frames its body ("length",
\* "chunked" or "none"), where the body starts, and the body it declares
Stream(kind, bytes, start, framing, body) ==
    [kind |-> kind, bytes |-> bytes, start |-> start,
     framing |-> framing, body |-> body]

\* GET http://h/ 1 CRLF Proxy-Connection:k CRLF K:v CRLF CONNECTION:x CRLF
\* Keep-alive:1 CRLF k:w CRLF A:b CRLF CRLF : headers to remove in several
\* letter cases, a header given twice, headers to keep
ReqHeaders ==
    GET \o <<" ","h","t","t","p",":","/","/","h","/"," ","1">> \o CRLF
        \o <<"P","r","o","x","y","-","C","o","n","n","e","c","t","i","o","n",":","k">> \o CRLF
        \o <<"K",":","v">> \o CRLF
        \o <<"C","O","N","N","E","C","T","I","O","N",":","x">> \o CRLF
        \o <<"K","e","e","p","-","a","l","i","v","e",":","1">> \o CRLF
        \o <<"k",":","w">> \o CRLF
        \o <<"A",":","b">> \o CRLF
        \o CRLF

RequestStreams ==
    {Stream("request", r, Len(r), "none", <<>>)
        : r \in {ReqGet, ReqConnect, ReqConnectBare, ReqBad, ReqHeaders}}
    \cup {Stream("request", ReqPost, Len(ReqPost) - 2, "length", <<"a">>)}
    \cup {Stream("request", ReqPostChunkedHead \o Chunked(ps),
                 Len(ReqPostChunkedHead), "chunked", Concat(ps))
            : ps \in PayloadLists}

ResponseStreams ==
    {Stream("response", RespLengthHead(n) \o SubSeq(BodyBytes, 1, n),
            Len(RespLengthHead(n)), "length", SubSeq(BodyBytes, 1, n))
        : n \in 0..MaxBody}
    \cup {Stream("response", RespChunkedHead \o Chunked(ps),
                 Len(RespChunkedHead), "chunked", Concat(ps))
            : ps \in PayloadLists}
    \cup {Stream("response", RespOpen, Len(RespOpen) - 1, "none", <<>>)}

ChunkStreams ==
    {Stream("chunk", Chunked(ps), 0, "chunked", Concat(ps)) : ps \in PayloadLists}

\* the parser that a feed starts with
FeedStart(st) ==
    [kind |-> st.kind, stream |-> st, pos |-> 0,
     http |-> HttpParser_init(IF st.kind = "response"
                              THEN HTTP_RESPONSE_PARSER
                              ELSE HTTP_REQUEST_PARSER),
     chunk |-> ChunkParser_init,
     built |-> None,
     done_at |-> None]

\* the next k bytes of the stream being fed
Piece(k) == SubSeq(feed.stream.bytes, feed.pos + 1, feed.pos + k)

Remaining == Len(feed.stream.bytes) - feed.pos

SessionIdle == <<client, server, request, response, last_activity, pc, net, obs>>

\* the feed after a parse() call on the next k bytes left the parser as p
Fed(p, k) ==
    [feed EXCEPT !.http = p,
                 !.pos = @ + k,
                 !.built = None,
                 !.done_at = IF @ = None /\ ~p.err /\ ~p.hang
                                /\ p.state = HTTP_PARSER_STATE_COMPLETE
                             THEN Some(feed.pos + k) ELSE @]

\* one parse() call on a request parser
FeedRequest ==
    /\ feed.kind = "request"
    /\ ~feed.http.err /\ ~feed.http.hang
    /\ \E k \in 1..Remaining :
          feed' = Fed(HttpParser_parse(feed.http, Piece(k)), k)
    /\ UNCHANGED SessionIdle

\* one build() call on a request parser in COMPLETE, as _process_request
\* makes it
FeedBuild ==
    /\ feed.kind = "request"
    /\ ~feed.http.err /\ ~feed.http.hang
    /\ feed.http.state = HTTP_PARSER_STATE_COMPLETE
    /\ feed.built = None
    /\ feed' = [feed EXCEPT !.built = Some(build(feed.http, del_headers, add_headers))]
    /\ UNCHANGED SessionIdle

\* one parse() call on a response parser
FeedResponse ==
    /\ feed.kind = "response"
    /\ ~feed.http.err /\ ~feed.http.hang
    /\ \E k \in 1..Remaining :
          feed' = Fed(HttpParser_parse(feed.http, Piece(k)), k)
    /\ UNCHANGED SessionIdle

\* one parse() call on a ChunkParser
FeedChunk ==
    /\ feed.kind = "chunk"
    /\ ~feed.chunk.err /\ ~feed.chunk.hang
    /\ \E k \in 1..Remaining :
          feed' = [feed EXCEPT !.chunk = ChunkParser_parse(@, Piece(k)),
                               !.pos = @ + k]
    /\ UNCHANGED SessionIdle

InitFeed ==
    /\ client = Connection_init
    /\ server = None
    /\ request = HttpParser_init(HTTP_REQUEST_PARSER)
    /\ response = HttpParser_init(HTTP_RESPONSE_PARSER)
    /\ last_activity = 0
    /\ pc = "done"
    /\ net = [cin |-> <<>>, script |-> <<>>, sin |-> <<>>,
              cwire |-> <<>>, swire |-> <<>>, now |-> 0,
                 quiet |-> FALSE]
    /\ obs = [dials |-> 0, n200 |-> 0, nrebuilt |-> 0, first_q |-> None,
              squeued |-> <<>>, after200 |-> None, reparsed |-> FALSE,
              unqueued |-> FALSE, exit |-> "none", last_read |-> None,
              sread |-> <<>>, relayed |-> <<>>, cqueued |-> <<>>, maxsend |-> 0, maxrecv |-> 0,
              close_pending |-> FALSE]
    /\ \E st \in RequestStreams \cup ResponseStreams \cup ChunkStreams :
          feed = FeedStart(st)

NextFeed == FeedRequest \/ FeedResponse \/ FeedChunk \/ FeedBuild

SpecFeed == InitFeed /\ [][NextFeed]_vars

(***************************************************************************)
(* Properties of the session (specification Spec)                          *)
(***************************************************************************)
\* everything that has been queued to the server endpoint there is now
ServerQueued == net.swire \o server[1].buffer

\* C1: in a session whose method is not CONNECT, the first thing queued to
\* a server endpoint is the rebuilt request, it is queued while the request
\* parser is in COMPLETE, and everything queued to that endpoint starts
\* with it; an open server endpoint has had it queued.
C1_RebuiltRequestFirst ==
    (server # None /\ request.method # Some(CONNECT)) =>
        /\ ~server[1].closed => obs.first_q # None
        /\ obs.first_q # None =>
              /\ obs.first_q[1].kind = "rebuilt"
              /\ obs.first_q[1].state = HTTP_PARSER_STATE_COMPLETE
              /\ IsPrefix(obs.first_q[1].data, ServerQueued)

\* C1 witness: the request arrived in several reads, the rebuilt request
\* was queued first, and bytes the client sent later follow it unparsed
C1_Witness ==
    /\ server # None
    /\ request.method = Some(POST)
    /\ obs.first_q # None
    /\ obs.first_q[1].kind = "rebuilt"
    /\ IsPrefix(obs.first_q[1].data, ServerQueued)
    /\ Len(ServerQueued) > Len(obs.first_q[1].data)
    /\ Len(net.swire) > 0

\* C2: in a CONNECT session, once the 200 reply has been queued, the bytes
\* queued to the server are exactly the bytes read from the client since,
\* in order, and the request parser is not called again.
C2_TunnelVerbatim ==
    (request.method = Some(CONNECT) /\ obs.after200 # None) =>
        /\ obs.squeued = obs.after200[1]
        /\ ~obs.reparsed

\* C3: when the session has terminated after reads, flushes and closes
\* only (the client closed, the response completed, or the idle check
\* fired), an endpoint that was not closed holds no unsent byte: the
\* server's buffer is empty unless the server endpoint is closed, and the
\* client's buffer is empty unless the client went away.
C3_NoByteDropped ==
    (pc = "done" /\ obs.exit \in {"client_closed", "complete", "idle"}) =>
        /\ (server # None /\ ~server[1].closed) => server[1].buffer = <<>>
        /\ obs.exit # "client_closed" =>
              client.buffer = <<>> /\ ~obs.unqueued

\* C4: a session makes at most one server endpoint, queues at most one
\* rebuilt request and at most one 200 reply.
C4_OneServerEndpoint ==
    /\ obs.dials <= 1
    /\ obs.nrebuilt <= 1
    /\ obs.n200 <= 1

\* C10: when the dial fails, what has been written to the client socket is
\* the whole 502 reply and nothing else.
C10_BadGatewayWritten ==
    obs.exit = "dial_failed" => net.cwire = bad_gateway_pkt

\* C11: after teardown, on every exit path, the client endpoint is closed
\* and a server endpoint that exists is closed as well.
C11_TeardownClosesBoth ==
    pc = "done" =>
        /\ client.closed
        /\ server # None => server[1].closed

\* C14: the bytes the proxy has queued to the client from the server are
\* the bytes it has read from the server, chunk by chunk and in order,
\* whatever the response parser did with them.
C14_ServerBytesRelayed == obs.relayed = obs.sread

\* C12: when the session leaves the loop through the idle check, the client
\* buffer is empty and at least 30 seconds have passed since the most
\* recent read on either socket.
C12_IdleNotEarly ==
    obs.exit = "idle" =>
        /\ client.buffer = <<>>
        /\ obs.last_read # None => net.now - obs.last_read[1] >= 30

\* C12 witness: the session read from both sockets, the client buffer
\* drained, and the idle check ended it
C12_Witness ==
    /\ obs.exit = "idle"
    /\ obs.last_read # None
    /\ Len(net.cwire) > 0
    /\ net.now - obs.last_read[1] > 30

\* C18: on the client endpoint, the bytes written to the socket followed by
\* the bytes still held in the buffer are exactly the bytes queued, in queue
\* order: a flush removes from the front what the one send accepted and
\* nothing else; the same holds on the first server endpoint.
C18_QueueFlushKeepsOrder ==
    /\ net.cwire \o client.buffer = obs.cqueued
    /\ (obs.dials = 1 /\ server # None) => ServerQueued = obs.squeued

\* C18 witness: a send accepted only a part of the 200 reply, the rest is
\* still in the client buffer
C18_Witness ==
    /\ Len(net.cwire) > 0
    /\ Len(net.cwire) < Len(connection_established_pkt)
    /\ IsPrefix(net.cwire, connection_established_pkt)
    /\ client.buffer # <<>>
    /\ net.cwire \o client.buffer = obs.cqueued

\* C19: in no iteration of the relay loop has a socket, the client's or the
\* server's, had more than one recv or more than one send issued on it.
C19_OneCallPerSocket == obs.maxsend <= 1 /\ obs.maxrecv <= 1

\* C20: a session that left the loop through the response-COMPLETE check
\* or the idle check left it with the client buffer empty, so everything
\* queued for the client, before or after a server close, has been written
\* to the client socket; a server close alone is not a reason to leave.
C20_ChecksAfterDrain ==
    /\ obs.exit \in {"none", "exception", "client_closed", "dial_failed",
                     "complete", "idle"}
    /\ obs.exit \in {"complete", "idle"} =>
           /\ buffer_size(client) = 0
           /\ net.cwire = obs.cqueued

\* C20 witness: the server closed while bytes were waiting in the client
\* buffer, the loop went on, the bytes were written, and then one of the
\* two checks ended the session
C20_Witness ==
    /\ obs.exit \in {"complete", "idle"}
    /\ obs.close_pending
    /\ server # None /\ server[1].closed
    /\ Len(net.cwire) > 0
    /\ net.cwire = obs.cqueued

\* the response of a session other than CONNECT has its headers, and they
\* declare neither a Content-Length nor Transfer-Encoding: chunked
ResponseLeftOpen ==
    /\ request.method # Some(CONNECT)
    /\ ~response.err /\ ~response.hang
    /\ response.state >= HTTP_PARSER_STATE_HEADERS_COMPLETE
    /\ ~HasHeader(response.headers, content_length)
    /\ ~(/\ HasHeader(response.headers, transfer_encoding)
         /\ Lower(HeaderValue(response.headers, transfer_encoding)) = chunked)

\* C21: for a response left open, the response parser is never in COMPLETE,
\* and once the server endpoint is closed and the client buffer is empty at
\* the end of an iteration, the loop does not go on: the session ends there
\* without waiting for the idle budget or for the client to close.
C21_OpenResponseEndsAtClose ==
    ResponseLeftOpen =>
        /\ response.state # HTTP_PARSER_STATE_COMPLETE
        /\ (server # None /\ server[1].closed /\ buffer_size(client) = 0)
               => pc # "run"

\* C22: once the sockets have fallen silent, with time going on and the
\* client socket accepting writes, the session ends and teardown runs,
\* whatever the parsers hold: the loop never goes on with the client buffer
\* empty and more than 30 seconds without a read, and a silent session is
\* left through the idle check unless the response-COMPLETE check or a
\* raising send ended it before.
C22_SilentSessionEnds ==
    /\ [](pc = "run" => ~(buffer_size(client) = 0 /\ is_inactive(Session)))
    /\ []((net.quiet /\ pc \in {"closing", "done"})
              => obs.exit \in {"idle", "complete", "exception"})
    /\ (net.quiet ~> pc = "done")

\* C22 witness: a session that fell silent with its response not complete
\* has written bytes to its client, was ended by the idle check and has run
\* teardown
C22_Witness ==
    /\ net.quiet
    /\ pc = "done"
    /\ obs.exit = "idle"
    /\ client.closed
    /\ Len(net.cwire) > 0
    /\ response.state # HTTP_PARSER_STATE_COMPLETE

(***************************************************************************)
(* Properties of the parsers (specification SpecFeed)                      *)
(***************************************************************************)
\* the feed is over: the stream is used up, or a parse() call did not return
FeedOver ==
    \/ feed.pos = Len(feed.stream.bytes)
    \/ feed.http.err \/ feed.http.hang
    \/ feed.chunk.err \/ feed.chunk.hang

\* what is observable of a message parser
HttpView(p) ==
    [state |-> p.state, method |-> p.method, url |-> p.url,
     version |-> p.version, headers |-> p.headers, body |-> p.body,
     err |-> p.err, hang |-> p.hang]

\* what is observable of a chunk framer
ChunkView(c) ==
    [state |-> c.state, body |-> c.body, err |-> c.err, hang |-> c.hang]

\* the parser after the whole stream in one parse() call
HttpWhole ==
    HttpParser_parse(FeedStart(feed.stream).http, feed.stream.bytes)

ChunkWhole == ChunkParser_parse(ChunkParser_init, feed.stream.bytes)

\* C5: a non-POST request that is a start line and the blank line brings the
\* request parser to COMPLETE.
C5_BareRequestCompletes ==
    (/\ feed.kind = "request"
     /\ feed.stream.bytes = ReqConnectBare
     /\ feed.pos = Len(feed.stream.bytes)) =>
        feed.http.state = HTTP_PARSER_STATE_COMPLETE

\* C6: however a request stream is split over parse() calls, the request
\* parser ends as it does when the stream is passed in one call.
C6_RequestSplitIndependent ==
    (feed.kind = "request" /\ FeedOver) =>
        HttpView(feed.http) = HttpView(HttpWhole)

\* C7: however a chunked byte string is split over parse() calls, the
\* chunk framer raises no error and ends in the state and with the body
\* that one call gives.
C7_ChunkSplitIndependent ==
    (feed.kind = "chunk" /\ FeedOver) =>
        /\ ~feed.chunk.err /\ ~feed.chunk.hang
        /\ ChunkView(feed.chunk) = ChunkView(ChunkWhole)

\* C8: a response parser fed a chunked response is in COMPLETE exactly when
\* the zero-size chunk and its CRLF have been fed, and its body is then the
\* concatenation of the payloads.
C8_ChunkedResponseComplete ==
    (feed.kind = "response" /\ feed.stream.framing = "chunked") =>
        /\ ~feed.http.err /\ ~feed.http.hang
        /\ feed.http.state = HTTP_PARSER_STATE_COMPLETE
              <=> feed.pos = Len(feed.stream.bytes)
        /\ feed.http.state = HTTP_PARSER_STATE_COMPLETE
              => feed.http.body = Some(feed.stream.body)

\* C9: a response parser fed a response that declares Content-Length: N is
\* in COMPLETE exactly when N body bytes have been fed after the blank
\* line, and its body is then those N bytes.
C9_LengthResponseComplete ==
    (feed.kind = "response" /\ feed.stream.framing = "length") =>
        /\ feed.http.state = HTTP_PARSER_STATE_COMPLETE
              <=> feed.pos >= feed.stream.start + Len(feed.stream.body)
        /\ feed.http.state = HTTP_PARSER_STATE_COMPLETE
              => feed.http.body = Some(feed.stream.body)

\* the lines of a byte string, each without its CRLF
RECURSIVE Lines(_)
Lines(data) ==
    LET Rest(s) == IF s.found THEN <<s.line>> \o Lines(s.data) ELSE <<>>
    IN  Rest(split(data))

\* the header lines of a serialized message: the lines after the start line
\* and before the first empty line
BuiltHeaderLines(data) ==
    LET Headers(ls) ==
            SubSeq(ls, 2, (CHOOSE i \in 1..Len(ls) :
                              ls[i] = <<>> /\ \A j \in 1..(i - 1) : ls[j] # <<>>) - 1)
    IN  Headers(Lines(data))

\* the lowercased name of a header line
HeaderName(line) == Lower(Strip(SplitOn(line, COLON)[1]))

ConnectionClose ==
    <<"C","o","n","n","e","c","t","i","o","n",":"," ","C","l","o","s","e">>

\* header entries written out as lines, in their order
RECURSIVE SerializeHeaders(_)
SerializeHeaders(hs) ==
    IF hs = <<>> THEN <<>>
    ELSE hs[1].name \o <<":", " ">> \o hs[1].value \o CRLF
         \o SerializeHeaders(Tail(hs))

\* C13: the rebuilt request is the request line, then every stored header
\* whose lowercased name is not proxy-connection, connection or keep-alive,
\* under its original name and in the stored order, then Connection: Close
\* as the last header, a blank line and the body; none of its header lines
\* before the last is named proxy-connection, connection or keep-alive in
\* any letter case.
C13_BuildEditsHeaders ==
    feed.built # None =>
        /\ feed.built[1] =
              feed.http.method[1] \o <<SP>> \o build_url(feed.http) \o <<SP>>
                \o feed.http.version[1] \o CRLF
                \o SerializeHeaders(SelectSeq(feed.http.headers,
                        LAMBDA e : Lower(e.name) \notin del_headers))
                \o ConnectionClose \o CRLF
                \o CRLF
                \o (IF feed.http.body = None THEN <<>> ELSE feed.http.body[1])
        /\ BuiltHeaderLines(feed.built[1]) # <<>>
        /\ \A i \in 1..Len(BuiltHeaderLines(feed.built[1])) :
              IF i = Len(BuiltHeaderLines(feed.built[1]))
              THEN BuiltHeaderLines(feed.built[1])[i] = ConnectionClose
              ELSE HeaderName(BuiltHeaderLines(feed.built[1])[i]) \notin del_headers

\* C13 witness: a request whose headers hold names to remove in several
\* letter cases, a name given twice and names to keep has been rebuilt
C13_Witness ==
    /\ feed.built # None
    /\ feed.stream.bytes = ReqHeaders
    /\ \E i \in 1..Len(feed.http.headers) :
          feed.http.headers[i].k \in del_headers
          /\ feed.http.headers[i].name \notin del_headers
    /\ Len(BuiltHeaderLines(feed.built[1])) = 3

\* C15: every ChunkParser.parse call returns, whatever the state of the
\* framer and whatever the data, whether the framer is fed on its own or by
\* a message parser.
C15_ChunkParseTerminates == ~feed.chunk.hang /\ ~feed.http.hang

\* every process() call of the loop of one parse() call, started on the
\* parser p with the data to process, ends in a state that is not earlier
\* than the state it started in, and in COMPLETE if it started there
RECURSIVE ProcessCallsAdvance(_, _)
ProcessCallsAdvance(p, data) ==
    LET Call(r) ==
            /\ r.p.state >= p.state
            /\ p.state = HTTP_PARSER_STATE_COMPLETE
                  => r.p.state = HTTP_PARSER_STATE_COMPLETE
            /\ (~r.p.err /\ ~r.p.hang /\ r.more) => ProcessCallsAdvance(r.p, r.data)
    IN  Call(HttpParser_process(p, data))

\* the bytes passed to the parse() call of a step of the feed
FedNow == SubSeq(feed.stream.bytes, feed.pos + 1, feed'.pos)

\* C16: no parse() call and no process() call inside it moves the state of
\* a request or response parser to an earlier state of the order
\* INITIALIZED < LINE_RCVD < RCVING_HEADERS < HEADERS_COMPLETE <
\* RCVING_BODY < COMPLETE, and a parser in COMPLETE stays there.
C16_StateNeverDecreases ==
    [][(feed.kind \in {"request", "response"} /\ feed'.pos > feed.pos) =>
          /\ feed'.http.state >= feed.http.state
          /\ feed.http.state = HTTP_PARSER_STATE_COMPLETE
                => feed'.http.state = HTTP_PARSER_STATE_COMPLETE
          /\ ProcessCallsAdvance(
                 [feed.http EXCEPT !.raw = @ \o FedNow, !.buffer = <<>>],
                 feed.http.buffer \o FedNow)]_vars

\* C16 witness: a parser with a declared body length was in COMPLETE, was
\* passed more bytes in a later parse() call, and is in COMPLETE
C16_Witness ==
    /\ feed.done_at # None
    /\ feed.pos > feed.done_at[1]
    /\ HasHeader(feed.http.headers, content_length)
    /\ feed.http.state = HTTP_PARSER_STATE_COMPLETE
    /\ Len(feed.http.body[1]) > 1

\* the message a parser holds
Message(p) ==
    [method |-> p.method, url |-> p.url, version |-> p.version,
     code |-> p.code, reason |-> p.reason, headers |-> p.headers,
     body |-> p.body]

\* C17: a parse() call on a parser that is in COMPLETE leaves method, url,
\* version, code, reason, headers and body as they were.
C17_CompleteMessageKept ==
    [][(/\ feed.kind \in {"request", "response"}
        /\ feed.http.state = HTTP_PARSER_STATE_COMPLETE
        /\ ~feed.http.err /\ ~feed.http.hang) =>
           Message(feed'.http) = Message(feed.http)]_vars

====
